---- MODULE Spec2Model ----
(***************************************************************************)
(* A model of the data preparation pipeline of the makerspace usage        *)
(* analysis: prepare_data.py (clean_and_load, add_semester_info,           *)
(* enhance_dataset, add_equipment_category) and api_integration.py         *)
(* (fetch_terms).                                                          *)
(*                                                                         *)
(* Time is counted in hours since 00:00 of a Monday (day 0).  A table      *)
(* (pandas DataFrame) is a record [columns, rows]; a row is a function     *)
(* from column names to cell values.  Tables live in a heap of objects and *)
(* are passed by reference, as in Python.                                  *)
(***************************************************************************)
EXTENDS Integers, Sequences, FiniteSets, TLC

VARIABLES
    heap,        \* the DataFrame objects allocated so far (a reference is an index)
    df,          \* reference of the caller's table
    arg,         \* the caller's table as it was when it was handed over
    terms_data,  \* list of (semester_name, start_date, end_date)
    asi_ret,     \* reference returned by add_semester_info (0: not called yet)
    ed_ret,      \* reference returned by enhance_dataset (0: not called yet)
    aec_ret,     \* reference returned by add_equipment_category (0: not called yet)
    csv,              \* clean_and_load: the rows of the CSV file
    covid_start,      \* clean_and_load: first instant of the closure period
    covid_end,        \* clean_and_load: last instant of the closure period
    clean_df,         \* clean_and_load: the rows returned
    clean_done,       \* clean_and_load has returned
    term_ids,         \* fetch_terms: the term IDs asked for
    fetch_i,          \* fetch_terms: position of the loop in term_ids
    fetch_terms_data, \* fetch_terms: the list terms_data it builds
    responses,        \* fetch_terms: what the Term API answered so far
    messages,         \* fetch_terms: the messages printed so far
    fetch_pc,         \* fetch_terms: "loop", "returned" or "raised"
    names_csv,        \* anonymize: the rows of the input CSV file
    anon_csv,         \* anonymize: the rows of the CSV file written
    anon_done,        \* anonymize has returned
    usage_df,         \* analyze_usage: the records load_semester_data returned
    weekly_counts,    \* analyze_usage: counts by semester and week
    weekly_stats,     \* analyze_usage: statistics by week across semesters
    peak_weeks,       \* analyze_usage: what identify_peak_weeks returned
    usage_pc,         \* analyze_usage: "idle", "loaded", "analyzed", "peaks" or "raised"
    equip_df,         \* analyze_equipment: the records to analyse
    equip_results,    \* analyze_equipment: what analyze_equipment_usage returned, by field
    equip_rankings,   \* analyze_equipment: what calculate_rankings returned, by field
    equip_pc          \* analyze_equipment: "idle", "read", "loaded", "analyzed", "ranked" or "raised"

prepVars == <<heap, df, arg, terms_data, asi_ret, ed_ret, aec_ret>>
cleanVars == <<csv, covid_start, covid_end, clean_df, clean_done>>
fetchVars == <<term_ids, fetch_i, fetch_terms_data, responses, messages, fetch_pc>>
anonVars == <<names_csv, anon_csv, anon_done>>
usageVars == <<usage_df, weekly_counts, weekly_stats, peak_weeks, usage_pc>>
equipVars == <<equip_df, equip_results, equip_rankings, equip_pc>>
laterVars == <<anonVars, usageVars, equipVars>>
vars == <<prepVars, cleanVars, fetchVars, laterVars>>

----------------------------------------------------------------------------
(* Bounds of the model *)

MaxDay == 0     \* the calendar window ends MaxDay days after the Monday of week 2
MaxTerms == 2   \* longest terms_data list
MaxRows == 2    \* longest input table
MaxTermIds == 3 \* longest term_ids list
MaxNameLen == 3 \* longest first or last name, in characters
MaxWeek == 3    \* last Semester_Week of the analysed records
MaxRecords == 5 \* most records in the analysed dataset
MaxEquipWeek == 2    \* last Semester_Week of the equipment records
MaxEquipRecords == 3 \* most records in the equipment dataset
MaxRankRecords == 5  \* most records in the one-week equipment dataset

----------------------------------------------------------------------------
(* Dates and times *)

HoursPerDay == 24
DaysPerWeek == 7

\* The calendar window: from the Sunday that ends week 1 onwards.
Days == (DaysPerWeek - 1) .. (DaysPerWeek + MaxDay)
TimesOfDay == {0, 12}

\* datetime.strptime(s, '%Y-%m-%d') of day d: that day at 00:00
Midnight(d) == d * HoursPerDay

Timestamps == {Midnight(d) + h : d \in Days, h \in TimesOfDay}

\* datetime.weekday(): 0 for Monday ... 6 for Sunday
weekday(date) == (date \div HoursPerDay) % DaysPerWeek

\* pd.Timedelta(days=n)
Timedelta(n) == n * HoursPerDay

\* Series.dt.days of a timedelta: whole days, rounded down
dt_days(delta) == delta \div HoursPerDay

----------------------------------------------------------------------------
(* Terms: Python tuples (semester_name, start_date, end_date) *)

TermNames == <<"2016 Spring", "2016 Fall", "2017 Spring", "2017 Fall">>

name_of(t) == t[1]
start_of(t) == t[2]
end_of(t) == t[3]

\* Position of x when inserted (stably) into the list s sorted by start date
RECURSIVE insert_by_start(_, _)
insert_by_start(s, x) ==
    IF s = <<>> THEN <<x>>
    ELSE IF start_of(x) < start_of(s[Len(s)])
         THEN Append(insert_by_start(SubSeq(s, 1, Len(s) - 1), x), s[Len(s)])
         ELSE Append(s, x)

\* sorted(terms_data, key=lambda x: x[1]): stable, ascending start date
RECURSIVE sort_by_start(_)
sort_by_start(terms) ==
    IF terms = <<>> THEN <<>>
    ELSE insert_by_start(sort_by_start(SubSeq(terms, 1, Len(terms) - 1)),
                         terms[Len(terms)])

asi_sorted_terms_unsorted(terms) == terms
asi_sorted_terms(terms) == sort_by_start(terms)

ed_sorted_terms_unsorted(terms) == terms
ed_sorted_terms(terms) == sort_by_start(terms)

----------------------------------------------------------------------------
(* Tables *)

Unknown == "Unknown"
NoWeek == 0      \* None in the Semester_Week column

\* df[c] = v for a whole column (added when absent)
set_cell(row, c, v) == [k \in DOMAIN row \cup {c} |-> IF k = c THEN v ELSE row[k]]

set_column(tbl, c, v) ==
    [columns |-> tbl.columns \cup {c},
     rows |-> [i \in DOMAIN tbl.rows |-> set_cell(tbl.rows[i], c, v)]]

\* df.copy(): a new object with the same content; the reference of the copy
df_copy_alias(h, r) == r
df_copy_ref(h, r) == Len(h) + 1
df_copy(h, r) == [heap |-> Append(h, h[r]), ref |-> df_copy_ref(h, r)]

----------------------------------------------------------------------------
(* add_semester_info *)

\* mask = (Timestamp >= start_date) & (Timestamp <= end_date)
asi_mask_exclusive_end(ts, start_date, end_date) == ts >= start_date /\ ts < end_date
asi_mask(ts, start_date, end_date) == ts >= start_date /\ ts <= end_date

\* first_monday = start_date - Timedelta(days=start_date.weekday())
asi_first_monday_is_start(start_date) == start_date
asi_first_monday(start_date) == start_date - Timedelta(weekday(start_date))

\* (days_since_first_monday // 7) + 1
asi_week(ts, start_date) ==
    (dt_days(ts - asi_first_monday(start_date)) \div DaysPerWeek) + 1

\* One iteration of the loop over sorted_terms
asi_loop_body(tbl, term) ==
    [tbl EXCEPT !.rows = [i \in DOMAIN tbl.rows |->
        LET row == tbl.rows[i]
        IN IF asi_mask(row["Timestamp"], start_of(term), end_of(term))
           THEN [row EXCEPT !["Semester"] = name_of(term),
                            !["Semester_Week"] = asi_week(row["Timestamp"], start_of(term))]
           ELSE row]]

RECURSIVE asi_loop(_, _)
asi_loop(tbl, terms) ==
    IF terms = <<>> THEN tbl
    ELSE asi_loop(asi_loop_body(tbl, Head(terms)), Tail(terms))

asi_keep_all(row) == TRUE
asi_known(row) == row["Semester"] # Unknown

\* The whole function on a heap h: the heap afterwards and the reference returned
add_semester_info(h, d, terms) ==
    LET c == df_copy(h, d)
        enhanced_df == c.ref
        init == set_column(set_column(c.heap[enhanced_df], "Semester", Unknown),
                           "Semester_Week", NoWeek)
        h1 == [c.heap EXCEPT ![enhanced_df] = init]
        h2 == [h1 EXCEPT ![enhanced_df] = asi_loop(h1[enhanced_df], asi_sorted_terms(terms))]
        \* enhanced_df[enhanced_df['Semester'] != 'Unknown']: a new table
        h3 == Append(h2, [h2[enhanced_df] EXCEPT !.rows = SelectSeq(@, asi_known)])
    IN [heap |-> h3, ref |-> Len(h3)]

----------------------------------------------------------------------------
(* Access types and equipment categories *)

\* equipment_normalization, as (old name, new name) pairs
equipment_normalization ==
    << <<"Jacobs DiWire Room 220C", "Jacobs DiWire">>,
       <<"Jacobs Vinyl Cutter and Inkjet", "Jacobs Vinyl Cutter">> >>

\* Series.replace(equipment_normalization) on one cell
replace_nothing(a) == a
replace(a) ==
    IF \E i \in DOMAIN equipment_normalization : equipment_normalization[i][1] = a
    THEN LET i == CHOOSE j \in DOMAIN equipment_normalization :
                      equipment_normalization[j][1] = a
         IN equipment_normalization[i][2]
    ELSE a

\* equipment_categories, as (equipment, category) pairs in the order of the dict
equipment_categories ==
    << <<"Jacobs Connex", "Advanced 3D Printing">>,
       <<"Jacobs Dimension", "Advanced 3D Printing">>,
       <<"Jacobs Form 3", "Advanced 3D Printing">>,
       <<"Jacobs Fortus", "Advanced 3D Printing">>,
       <<"Jacobs FabLight Laser", "Advanced Prototyping">>,
       <<"Jacobs OMAX Waterjet", "Advanced Prototyping">>,
       <<"Jacobs Shopbot", "Advanced Prototyping">>,
       <<"Jacobs Type A", "Basic 3D Printing">>,
       <<"Jacobs DiWire", "Basic Prototyping">>,
       <<"Jacobs Inkjet", "Basic Prototyping">>,
       <<"Jacobs Vinyl Cutter", "Basic Prototyping">>,
       <<"Jacobs Laser Access", "Laser Cutting">>,
       <<"Jacobs Metal Shop", "Metal Shop">>,
       <<"Jacobs Wood Shop", "Wood Shop">>,
       <<"Jacobs MakerPass Access", "Entry">> >>

\* The characters of the access type names the model uses
chars ==
    ("Jacobs Connex" :> <<"J", "a", "c", "o", "b", "s", " ", "C", "o", "n", "n", "e", "x">>) @@
    ("Jacobs Dimension" :> <<"J", "a", "c", "o", "b", "s", " ", "D", "i", "m", "e", "n", "s", "i", "o", "n">>) @@
    ("Jacobs Form 3" :> <<"J", "a", "c", "o", "b", "s", " ", "F", "o", "r", "m", " ", "3">>) @@
    ("Jacobs Fortus" :> <<"J", "a", "c", "o", "b", "s", " ", "F", "o", "r", "t", "u", "s">>) @@
    ("Jacobs FabLight Laser" :> <<"J", "a", "c", "o", "b", "s", " ", "F", "a", "b", "L", "i", "g", "h", "t", " ", "L", "a", "s", "e", "r">>) @@
    ("Jacobs OMAX Waterjet" :> <<"J", "a", "c", "o", "b", "s", " ", "O", "M", "A", "X", " ", "W", "a", "t", "e", "r", "j", "e", "t">>) @@
    ("Jacobs Shopbot" :> <<"J", "a", "c", "o", "b", "s", " ", "S", "h", "o", "p", "b", "o", "t">>) @@
    ("Jacobs Type A" :> <<"J", "a", "c", "o", "b", "s", " ", "T", "y", "p", "e", " ", "A">>) @@
    ("Jacobs DiWire" :> <<"J", "a", "c", "o", "b", "s", " ", "D", "i", "W", "i", "r", "e">>) @@
    ("Jacobs Inkjet" :> <<"J", "a", "c", "o", "b", "s", " ", "I", "n", "k", "j", "e", "t">>) @@
    ("Jacobs Vinyl Cutter" :> <<"J", "a", "c", "o", "b", "s", " ", "V", "i", "n", "y", "l", " ", "C", "u", "t", "t", "e", "r">>) @@
    ("Jacobs Laser Access" :> <<"J", "a", "c", "o", "b", "s", " ", "L", "a", "s", "e", "r", " ", "A", "c", "c", "e", "s", "s">>) @@
    ("Jacobs Metal Shop" :> <<"J", "a", "c", "o", "b", "s", " ", "M", "e", "t", "a", "l", " ", "S", "h", "o", "p">>) @@
    ("Jacobs Wood Shop" :> <<"J", "a", "c", "o", "b", "s", " ", "W", "o", "o", "d", " ", "S", "h", "o", "p">>) @@
    ("Jacobs MakerPass Access" :> <<"J", "a", "c", "o", "b", "s", " ", "M", "a", "k", "e", "r", "P", "a", "s", "s", " ", "A", "c", "c", "e", "s", "s">>) @@
    ("Jacobs DiWire Room 220C" :> <<"J", "a", "c", "o", "b", "s", " ", "D", "i", "W", "i", "r", "e", " ", "R", "o", "o", "m", " ", "2", "2", "0", "C">>) @@
    ("Jacobs Vinyl Cutter and Inkjet" :> <<"J", "a", "c", "o", "b", "s", " ", "V", "i", "n", "y", "l", " ", "C", "u", "t", "t", "e", "r", " ", "a", "n", "d", " ", "I", "n", "k", "j", "e", "t">>) @@
    ("jacobs wood shop annex" :> <<"j", "a", "c", "o", "b", "s", " ", "w", "o", "o", "d", " ", "s", "h", "o", "p", " ", "a", "n", "n", "e", "x">>) @@
    ("Jacobs Wood Shop and Jacobs Metal Shop" :> <<"J", "a", "c", "o", "b", "s", " ", "W", "o", "o", "d", " ", "S", "h", "o", "p", " ", "a", "n", "d", " ", "J", "a", "c", "o", "b", "s", " ", "M", "e", "t", "a", "l", " ", "S", "h", "o", "p">>) @@
    ("Bike Repair" :> <<"B", "i", "k", "e", " ", "R", "e", "p", "a", "i", "r">>)

Uppercase == <<"A", "B", "C", "D", "E", "F", "G", "H", "I", "J", "K", "L", "M", "N", "O", "P", "Q", "R", "S", "T", "U", "V", "W", "X", "Y", "Z">>
Lowercase == <<"a", "b", "c", "d", "e", "f", "g", "h", "i", "j", "k", "l", "m", "n", "o", "p", "q", "r", "s", "t", "u", "v", "w", "x", "y", "z">>

\* str.lower() on a sequence of characters
lower(cs) ==
    [i \in DOMAIN cs |->
        IF \E k \in DOMAIN Uppercase : Uppercase[k] = cs[i]
        THEN Lowercase[CHOOSE k \in DOMAIN Uppercase : Uppercase[k] = cs[i]]
        ELSE cs[i]]

\* a in b for Python strings: a occurs in b as a contiguous substring
str_in(a, b) ==
    \E off \in 0 .. (Len(b) - Len(a)) : \A i \in DOMAIN a : b[off + i] = a[i]

\* The last partial match at or after position i of equipment_categories
partial_match_last(access_type, i) ==
    LET hits == {j \in i .. Len(equipment_categories) :
                    str_in(lower(chars[equipment_categories[j][1]]), lower(chars[access_type]))}
    IN IF hits = {} THEN "Other"
       ELSE equipment_categories[CHOOSE j \in hits : \A k \in hits : k <= j][2]

\* The first partial match at or after position i of equipment_categories
RECURSIVE partial_match(_, _)
partial_match(access_type, i) ==
    IF i > Len(equipment_categories) THEN "Other"
    ELSE IF str_in(lower(chars[equipment_categories[i][1]]), lower(chars[access_type]))
         THEN equipment_categories[i][2]
         ELSE partial_match(access_type, i + 1)

map_equipment_category(access_type) ==
    IF \E i \in DOMAIN equipment_categories : equipment_categories[i][1] = access_type
    THEN LET i == CHOOSE j \in DOMAIN equipment_categories :
                      equipment_categories[j][1] = access_type
         IN equipment_categories[i][2]
    ELSE partial_match(access_type, 1)

\* enhanced_df['Equipment_Category'] = enhanced_df['Access Type'].apply(map_equipment_category)
apply_map_equipment_category(tbl) ==
    [columns |-> tbl.columns \cup {"Equipment_Category"},
     rows |-> [i \in DOMAIN tbl.rows |->
                  set_cell(tbl.rows[i], "Equipment_Category",
                           map_equipment_category(tbl.rows[i]["Access Type"]))]]

\* The whole function on a heap h: the heap afterwards and the reference returned
add_equipment_category(h, d) ==
    LET c == df_copy(h, d)
        enhanced_df == c.ref
    IN [heap |-> [c.heap EXCEPT ![enhanced_df] = apply_map_equipment_category(@)],
        ref |-> enhanced_df]

----------------------------------------------------------------------------
(* enhance_dataset *)

\* enhanced_df['Access Type'] = enhanced_df['Access Type'].replace(equipment_normalization)
normalize_access_type(tbl) ==
    [tbl EXCEPT !.rows = [i \in DOMAIN tbl.rows |->
        [tbl.rows[i] EXCEPT !["Access Type"] = replace(@)]]]

\* mask = (Timestamp >= start_date) & (Timestamp <= end_date)
ed_mask_exclusive_end(ts, start_date, end_date) == ts >= start_date /\ ts < end_date
ed_mask(ts, start_date, end_date) == ts >= start_date /\ ts <= end_date

\* first_monday = start_date - Timedelta(days=start_date.weekday())
ed_first_monday_is_start(start_date) == start_date
ed_first_monday(start_date) == start_date - Timedelta(weekday(start_date))

\* (days_since_first_monday // 7) + 1
ed_week(ts, start_date) ==
    (dt_days(ts - ed_first_monday(start_date)) \div DaysPerWeek) + 1

\* One iteration of the loop over sorted_terms
ed_loop_body(tbl, term) ==
    [tbl EXCEPT !.rows = [i \in DOMAIN tbl.rows |->
        LET row == tbl.rows[i]
        IN IF ed_mask(row["Timestamp"], start_of(term), end_of(term))
           THEN [row EXCEPT !["Semester"] = name_of(term),
                            !["Semester_Week"] = ed_week(row["Timestamp"], start_of(term))]
           ELSE row]]

RECURSIVE ed_loop(_, _)
ed_loop(tbl, terms) ==
    IF terms = <<>> THEN tbl
    ELSE ed_loop(ed_loop_body(tbl, Head(terms)), Tail(terms))

ed_known(row) == row["Semester"] # Unknown

\* The whole function on a heap h: the heap afterwards and the reference returned
enhance_dataset(h, d, terms) ==
    LET c == df_copy(h, d)
        enhanced_df == c.ref
        h0 == [c.heap EXCEPT ![enhanced_df] = normalize_access_type(@)]
        init == set_column(set_column(h0[enhanced_df], "Semester", Unknown),
                           "Semester_Week", NoWeek)
        h1 == [h0 EXCEPT ![enhanced_df] = init]
        h2 == [h1 EXCEPT ![enhanced_df] = ed_loop(h1[enhanced_df], ed_sorted_terms(terms))]
        \* enhanced_df[enhanced_df['Semester'] != 'Unknown']: a new table
        h3 == Append(h2, [h2[enhanced_df] EXCEPT !.rows = SelectSeq(@, ed_known)])
    IN add_equipment_category(h3, Len(h3))

----------------------------------------------------------------------------
(* clean_and_load *)

\* No row is dropped
drop_duplicates_none(rows) == rows

\* DataFrame.drop_duplicates(): of rows equal in all columns the first is kept
RECURSIVE drop_duplicates(_)
drop_duplicates(rows) ==
    IF rows = <<>> THEN <<>>
    ELSE LET front == SubSeq(rows, 1, Len(rows) - 1)
             last == rows[Len(rows)]
         IN IF \E i \in DOMAIN front : front[i] = last
            THEN drop_duplicates(front)
            ELSE Append(drop_duplicates(front), last)

\* (df["Timestamp"] >= covid_start) & (df["Timestamp"] <= covid_end)
in_covid_before_end(ts, cs, ce) == ts >= cs /\ ts < ce
in_covid(ts, cs, ce) == ts >= cs /\ ts <= ce

clean_and_load(rows, cs, ce) ==
    LET not_covid(row) == ~in_covid(row["Timestamp"], cs, ce)
    IN SelectSeq(drop_duplicates(rows), not_covid)

----------------------------------------------------------------------------
(* fetch_terms *)

\* Date strings the Term API may send, and the day '%Y-%m-%d' reads from
\* them (day 0 is Monday 2016-01-11); parsing any other string fails
ParsedDates == ("2016-01-17" :> 6) @@ ("2016-01-18" :> 7)

\* A parser that reads any string as a date
strptime_lenient(s) ==
    IF s \in DOMAIN ParsedDates
    THEN [exc |-> "", value |-> Midnight(ParsedDates[s])]
    ELSE [exc |-> "", value |-> 0]

\* datetime.strptime(s, "%Y-%m-%d")
strptime(s) ==
    IF s \in DOMAIN ParsedDates
    THEN [exc |-> "", value |-> Midnight(ParsedDates[s])]
    ELSE [exc |-> "ValueError", value |-> 0]

\* One answer of the Term API, by the fields fetch_terms reads:
\*   http      "ok", or "error" (requests.get or raise_for_status raises)
\*   response  "object", "absent", or "null" (a JSON null where the object is expected)
\*   terms, sessions   "list", "empty" or "absent"
\*   name, beginDate, fullyGradedDeadline   the string, "" when missing
Complete(id, b, e) ==
    [http |-> "ok", response |-> "object", terms |-> "list", name |-> TermNames[id],
     sessions |-> "list", beginDate |-> b, fullyGradedDeadline |-> e]

DateStrings == DOMAIN ParsedDates \cup {"18/01/2016"}

Responses(id) ==
    {Complete(id, b, e) : b \in DateStrings, e \in DateStrings} \cup
    { [Complete(id, "2016-01-17", "2016-01-18") EXCEPT !.http = "error"],
      [Complete(id, "2016-01-17", "2016-01-18") EXCEPT !.response = "absent"],
      [Complete(id, "2016-01-17", "2016-01-18") EXCEPT !.response = "null"],
      [Complete(id, "2016-01-17", "2016-01-18") EXCEPT !.terms = "empty"],
      [Complete(id, "2016-01-17", "2016-01-18") EXCEPT !.name = ""],
      [Complete(id, "2016-01-17", "2016-01-18") EXCEPT !.sessions = "absent"],
      [Complete(id, "2016-01-17", "2016-01-18") EXCEPT !.beginDate = ""],
      [Complete(id, "2016-01-17", "2016-01-18") EXCEPT !.fullyGradedDeadline = ""] }

\* The body of the try block for one term ID: the exception it raises ("" for
\* none) and the tuple it appends
try_body(r) ==
    IF r.http # "ok" THEN [exc |-> "RequestException", value |-> <<>>]
    ELSE IF r.response = "null" THEN [exc |-> "AttributeError", value |-> <<>>]
    ELSE IF r.response = "absent" \/ r.terms # "list" THEN [exc |-> "KeyError", value |-> <<>>]
    ELSE IF r.name = "" THEN [exc |-> "KeyError", value |-> <<>>]
    ELSE IF r.sessions # "list" THEN [exc |-> "KeyError", value |-> <<>>]
    ELSE IF r.beginDate = "" THEN [exc |-> "KeyError", value |-> <<>>]
    ELSE IF r.fullyGradedDeadline = "" THEN [exc |-> "KeyError", value |-> <<>>]
    ELSE IF strptime(r.beginDate).exc # "" THEN [exc |-> strptime(r.beginDate).exc, value |-> <<>>]
    ELSE IF strptime(r.fullyGradedDeadline).exc # ""
         THEN [exc |-> strptime(r.fullyGradedDeadline).exc, value |-> <<>>]
    ELSE [exc |-> "",
          value |-> <<r.name, strptime(r.beginDate).value,
                      strptime(r.fullyGradedDeadline).value>>]

\* The exceptions the except clauses of the loop catch
caught_without_ValueError == {"RequestException", "KeyError"}
caught == {"RequestException", "KeyError", "ValueError"}

----------------------------------------------------------------------------
(* Inputs *)

\* The i-th term of a list: its own name, and it does not end before it starts
TermsAt(i) ==
    {t \in {<<TermNames[i], Midnight(s), Midnight(e)>> : s \in Days, e \in Days} :
        start_of(t) <= end_of(t)}

RECURSIVE TermLists(_)
TermLists(n) ==
    IF n = 0 THEN {<<>>}
    ELSE TermLists(n - 1) \cup
         {Append(l, t) : l \in {x \in TermLists(n - 1) : Len(x) = n - 1}, t \in TermsAt(n)}

Row(ts, a) == ("Timestamp" :> ts) @@ ("Access Type" :> a)

RECURSIVE RowLists(_, _)
RowLists(R, n) ==
    IF n = 0 THEN {<<>>}
    ELSE RowLists(R, n - 1) \cup
         {Append(l, r) : l \in {x \in RowLists(R, n - 1) : Len(x) = n - 1}, r \in R}

Rows(A) == {Row(ts, a) : ts \in Timestamps, a \in A}

Tables(A) ==
    {[columns |-> {"Timestamp", "Access Type"}, rows |-> rs] :
        rs \in RowLists(Rows(A), MaxRows)}

----------------------------------------------------------------------------
(* The calls *)

\* The parts of the program a specification leaves out stay as they start
PrepIdle ==
    /\ arg = [columns |-> {}, rows |-> <<>>]
    /\ heap = <<>>
    /\ df = 0
    /\ terms_data = <<>>
    /\ asi_ret = 0
    /\ ed_ret = 0
    /\ aec_ret = 0

CleanIdle ==
    /\ csv = <<>>
    /\ covid_start = 0
    /\ covid_end = 0
    /\ clean_df = <<>>
    /\ clean_done = FALSE

FetchIdle ==
    /\ term_ids = <<>>
    /\ fetch_i = 0
    /\ fetch_terms_data = <<>>
    /\ responses = <<>>
    /\ messages = <<>>
    /\ fetch_pc = "returned"

AnonIdle ==
    /\ names_csv = <<>>
    /\ anon_csv = <<>>
    /\ anon_done = FALSE

UsageIdle ==
    /\ usage_df = <<>>
    /\ weekly_counts = <<>>
    /\ weekly_stats = <<>>
    /\ peak_weeks = <<>>
    /\ usage_pc = "idle"

EquipIdle ==
    /\ equip_df = <<>>
    /\ equip_results = <<>>
    /\ equip_rankings = <<>>
    /\ equip_pc = "idle"

LaterIdle == AnonIdle /\ UsageIdle /\ EquipIdle

InitCall(A, L) ==
    /\ CleanIdle
    /\ FetchIdle
    /\ LaterIdle
    /\ arg \in Tables(A)
    /\ heap = <<arg>>
    /\ df = 1
    /\ terms_data \in L
    /\ asi_ret = 0
    /\ ed_ret = 0
    /\ aec_ret = 0

CallAddSemesterInfo ==
    /\ asi_ret = 0
    /\ LET r == add_semester_info(heap, df, terms_data)
       IN /\ heap' = r.heap
          /\ asi_ret' = r.ref
    /\ UNCHANGED <<df, arg, terms_data, ed_ret, aec_ret>>
    /\ UNCHANGED <<cleanVars, fetchVars, laterVars>>

CallEnhanceDataset ==
    /\ asi_ret # 0
    /\ ed_ret = 0
    /\ LET r == enhance_dataset(heap, df, terms_data)
       IN /\ heap' = r.heap
          /\ ed_ret' = r.ref
    /\ UNCHANGED <<df, arg, terms_data, asi_ret, aec_ret>>
    /\ UNCHANGED <<cleanVars, fetchVars, laterVars>>

CallAddEquipmentCategory ==
    /\ ed_ret # 0
    /\ aec_ret = 0
    /\ LET r == add_equipment_category(heap, df)
       IN /\ heap' = r.heap
          /\ aec_ret' = r.ref
    /\ UNCHANGED <<df, arg, terms_data, asi_ret, ed_ret>>
    /\ UNCHANGED <<cleanVars, fetchVars, laterVars>>

\* The term and week assignment: records of one kind of equipment, any calendar
Init == InitCall({"Jacobs Wood Shop"}, TermLists(MaxTerms))

Next == CallAddSemesterInfo \/ CallEnhanceDataset

Spec == Init /\ [][Next]_vars

\* The frame of the three functions: records of several kinds of equipment,
\* at most one term
FrameAccessTypes == {"Jacobs DiWire Room 220C", "Jacobs Wood Shop"}

InitFrame == InitCall(FrameAccessTypes, TermLists(1))

NextFrame == CallAddSemesterInfo \/ CallEnhanceDataset \/ CallAddEquipmentCategory

SpecFrame == InitFrame /\ [][NextFrame]_vars


\* add_equipment_category alone, on records of equipment the mapping names,
\* equipment it names in part, in another case or twice, and equipment it does
\* not name
CategoryAccessTypes ==
    {"Jacobs Wood Shop", "Jacobs MakerPass Access", "Jacobs Type A",
     "Jacobs DiWire Room 220C", "Jacobs Vinyl Cutter and Inkjet",
     "Jacobs Wood Shop and Jacobs Metal Shop", "jacobs wood shop annex",
     "Bike Repair"}

CategoryTables ==
    {[columns |-> {"Timestamp", "Access Type"}, rows |-> rs] :
        rs \in RowLists({Row(Midnight(DaysPerWeek), a) : a \in CategoryAccessTypes},
                        MaxRows)}

InitCategory ==
    /\ CleanIdle
    /\ FetchIdle
    /\ LaterIdle
    /\ arg \in CategoryTables
    /\ heap = <<arg>>
    /\ df = 1
    /\ terms_data = <<>>
    /\ asi_ret = 0
    /\ ed_ret = 0
    /\ aec_ret = 0

CallAddEquipmentCategoryAlone ==
    /\ aec_ret = 0
    /\ LET r == add_equipment_category(heap, df)
       IN /\ heap' = r.heap
          /\ aec_ret' = r.ref
    /\ UNCHANGED <<df, arg, terms_data, asi_ret, ed_ret>>
    /\ UNCHANGED <<cleanVars, fetchVars, laterVars>>

NextCategory == CallAddEquipmentCategoryAlone

SpecCategory == InitCategory /\ [][NextCategory]_vars

\* clean_and_load on a CSV file of records of several kinds of equipment
InitClean ==
    /\ PrepIdle
    /\ FetchIdle
    /\ LaterIdle
    /\ csv \in RowLists(Rows(FrameAccessTypes), MaxRows)
    /\ covid_start \in {Midnight(d) : d \in Days}
    /\ covid_end \in {Midnight(d) : d \in Days}
    /\ clean_df = <<>>
    /\ clean_done = FALSE

CallCleanAndLoad ==
    /\ ~clean_done
    /\ clean_df' = clean_and_load(csv, covid_start, covid_end)
    /\ clean_done' = TRUE
    /\ UNCHANGED <<csv, covid_start, covid_end, prepVars, fetchVars, laterVars>>

NextClean == CallCleanAndLoad

SpecClean == InitClean /\ [][NextClean]_vars

\* fetch_terms, one iteration of its loop at a time
InitFetch ==
    /\ PrepIdle
    /\ CleanIdle
    /\ LaterIdle
    /\ term_ids \in {[i \in 1 .. n |-> i] : n \in 1 .. MaxTermIds}
    /\ fetch_i = 1
    /\ fetch_terms_data = <<>>
    /\ responses = <<>>
    /\ messages = <<>>
    /\ fetch_pc = "loop"

\* One iteration: the request for term_ids[fetch_i], answered with r
FetchTerm ==
    /\ fetch_pc = "loop"
    /\ fetch_i <= Len(term_ids)
    /\ \E r \in Responses(term_ids[fetch_i]) :
          LET t == try_body(r)
          IN /\ responses' = Append(responses, r)
             /\ IF t.exc = ""
                THEN /\ fetch_terms_data' = Append(fetch_terms_data, t.value)
                     /\ fetch_i' = fetch_i + 1
                     /\ UNCHANGED <<messages, fetch_pc>>
                ELSE IF t.exc \in caught
                THEN /\ messages' = Append(messages, <<term_ids[fetch_i], t.exc>>)
                     /\ fetch_i' = fetch_i + 1
                     /\ UNCHANGED <<fetch_terms_data, fetch_pc>>
                ELSE /\ fetch_pc' = "raised"
                     /\ UNCHANGED <<fetch_terms_data, messages, fetch_i>>
    /\ UNCHANGED <<term_ids, prepVars, cleanVars, laterVars>>

\* The loop is over: return terms_data
FetchReturn ==
    /\ fetch_pc = "loop"
    /\ fetch_i > Len(term_ids)
    /\ fetch_pc' = "returned"
    /\ UNCHANGED <<term_ids, fetch_i, fetch_terms_data, responses, messages,
                   prepVars, cleanVars, laterVars>>

NextFetch == FetchTerm \/ FetchReturn

SpecFetch == InitFetch /\ [][NextFetch]_vars

----------------------------------------------------------------------------
(* anonymize *)

\* hashlib.sha256(s.encode()).hexdigest(): taken to be injective, the digest
\* stands for the string it was computed from
sha256_hexdigest(s) == [sha256 |-> s]

\* f"{first_name} {last_name}", on sequences of characters
name_string(first_name, last_name) == first_name \o <<" ">> \o last_name

generate_unique_id(first_name, last_name) ==
    sha256_hexdigest(name_string(first_name, last_name))

\* The rows written: 'Unique ID' added, 'First Name' and 'Last Name' dropped
anonymize(rows) ==
    [i \in DOMAIN rows |->
        [c \in (DOMAIN rows[i] \cup {"Unique ID"}) \ {"First Name", "Last Name"} |->
            IF c = "Unique ID"
            THEN generate_unique_id(rows[i]["First Name"], rows[i]["Last Name"])
            ELSE rows[i][c]]]

\* Names: letters and spaces, a letter first and last
NameAlphabet == {"a", " "}

Names ==
    {n \in UNION {[1 .. k -> NameAlphabet] : k \in 1 .. MaxNameLen} :
        n[1] # " " /\ n[Len(n)] # " "}

NameRows == {("First Name" :> f) @@ ("Last Name" :> l) : f \in Names, l \in Names}

InitAnon ==
    /\ PrepIdle
    /\ CleanIdle
    /\ FetchIdle
    /\ UsageIdle
    /\ EquipIdle
    /\ names_csv \in RowLists(NameRows, MaxRows)
    /\ anon_csv = <<>>
    /\ anon_done = FALSE

CallAnonymize ==
    /\ ~anon_done
    /\ anon_csv' = anonymize(names_csv)
    /\ anon_done' = TRUE
    /\ UNCHANGED <<names_csv, prepVars, cleanVars, fetchVars, usageVars, equipVars>>

NextAnon == CallAnonymize

SpecAnon == InitAnon /\ [][NextAnon]_vars

----------------------------------------------------------------------------
(* analyze_usage *)

\* Exact arithmetic for the floating-point results: a quotient in lowest terms
RECURSIVE gcd(_, _)
gcd(a, b) == IF b = 0 THEN a ELSE gcd(b, a % b)

quotient(n, d) == [num |-> n \div gcd(n, d), den |-> d \div gcd(n, d)]

less(x, y) == x.num * y.den < y.num * x.den

\* NaN, and a number of hundredths
NaN == [nan |-> TRUE, hundredths |-> 0]

hundredths_of(h) == [nan |-> FALSE, hundredths |-> h]

\* round(2) of n / d, d > 0, in hundredths: to the nearest, a tie to the even one
round_2(n, d) ==
    LET scaled == 100 * n
        down == scaled \div d
        rest == scaled - down * d
    IN IF 2 * rest < d THEN down
       ELSE IF 2 * rest > d THEN down + 1
       ELSE IF down % 2 = 0 THEN down ELSE down + 1

\* The semester names of the analysed records, in the order of Python strings
SortedSemesters == <<"2016 Fall", "2016 Spring">>

semester_position(s) == CHOOSE i \in DOMAIN SortedSemesters : SortedSemesters[i] = s

key_before(a, b) ==
    \/ semester_position(a[1]) < semester_position(b[1])
    \/ a[1] = b[1] /\ a[2] <= b[2]

\* The group keys in the sorted order groupby gives them
RECURSIVE sorted_keys(_)
sorted_keys(K) ==
    IF K = {} THEN <<>>
    ELSE LET first == CHOOSE k \in K : \A j \in K : key_before(k, j)
         IN <<first>> \o sorted_keys(K \ {first})

\* .size() of one group
group_size_one(rows, key) == 1
group_size(rows, key) ==
    Cardinality({i \in DOMAIN rows :
                    rows[i]["Semester"] = key[1] /\ rows[i]["Semester_Week"] = key[2]})

\* df.groupby(["Semester", "Semester_Week"]).size().reset_index(name="Count")
groupby_size(rows) ==
    LET keys == sorted_keys({<<rows[i]["Semester"], rows[i]["Semester_Week"]>> :
                                i \in DOMAIN rows})
    IN [i \in DOMAIN keys |->
           [Semester |-> keys[i][1], Semester_Week |-> keys[i][2],
            Count |-> group_size(rows, keys[i])]]

RECURSIVE sorted_weeks(_)
sorted_weeks(W) ==
    IF W = {} THEN <<>>
    ELSE LET first == CHOOSE w \in W : \A v \in W : w <= v
         IN <<first>> \o sorted_weeks(W \ {first})

RECURSIVE sum(_)
sum(xs) == IF xs = <<>> THEN 0 ELSE xs[1] + sum(Tail(xs))

RECURSIVE sum_of_squares(_)
sum_of_squares(xs) == IF xs = <<>> THEN 0 ELSE xs[1] * xs[1] + sum_of_squares(Tail(xs))

min(xs) == CHOOSE x \in {xs[i] : i \in DOMAIN xs} : \A i \in DOMAIN xs : x <= xs[i]

max(xs) == CHOOSE x \in {xs[i] : i \in DOMAIN xs} : \A i \in DOMAIN xs : x >= xs[i]

mean(xs) == quotient(sum(xs), Len(xs))

\* The sample standard deviation, as the number it is the square root of;
\* NaN for a single value, which fillna(0) replaces by 0
std_fillna(xs) ==
    IF Len(xs) = 1 THEN [sqrt_of |-> quotient(0, 1)]
    ELSE [sqrt_of |-> quotient(Len(xs) * sum_of_squares(xs) - sum(xs) * sum(xs),
                               Len(xs) * (Len(xs) - 1))]

\* weekly_counts.groupby("Semester_Week").agg(...), percent_change not yet set
groupby_agg(counts) ==
    LET weeks == sorted_weeks({counts[i].Semester_Week : i \in DOMAIN counts})
    IN [i \in DOMAIN weeks |->
           LET in_week(row) == row.Semester_Week = weeks[i]
               of_week == SelectSeq(counts, in_week)
               Count == [j \in DOMAIN of_week |-> of_week[j].Count]
           IN [Semester_Week |-> weeks[i],
               avg_usage |-> mean(Count),
               std_usage |-> std_fillna(Count),
               min_usage |-> min(Count),
               max_usage |-> max(Count),
               num_semesters |-> Len(Count),
               percent_change |-> NaN]]

\* series.pct_change() * 100, rounded to two decimal places: each value
\* against the value of the row before it, NaN for the first row
calculate_percent_change(series) ==
    [i \in DOMAIN series |->
        IF i = 1 THEN NaN
        ELSE LET prev == series[i - 1]
                 cur == series[i]
             IN hundredths_of(round_2(100 * (cur.num * prev.den - prev.num * cur.den),
                                      prev.num * cur.den))]

analyze_weekly_usage(rows) ==
    LET counts == groupby_size(rows)
        stats == groupby_agg(counts)
        percent_change ==
            calculate_percent_change([i \in DOMAIN stats |-> stats[i].avg_usage])
    IN [weekly_counts |-> counts,
        weekly_stats |-> [i \in DOMAIN stats |->
                             [stats[i] EXCEPT !.percent_change = percent_change[i]]]]

\* idxmax() and idxmin() of avg_usage: the first row with the extreme value
idxmax(stats) ==
    CHOOSE i \in DOMAIN stats :
        /\ \A j \in DOMAIN stats : ~less(stats[i].avg_usage, stats[j].avg_usage)
        /\ \A j \in 1 .. (i - 1) : less(stats[j].avg_usage, stats[i].avg_usage)

idxmin(stats) ==
    CHOOSE i \in DOMAIN stats :
        /\ \A j \in DOMAIN stats : ~less(stats[j].avg_usage, stats[i].avg_usage)
        /\ \A j \in 1 .. (i - 1) : less(stats[i].avg_usage, stats[j].avg_usage)

max_num_semesters(stats) == max([i \in DOMAIN stats |-> stats[i].num_semesters])

\* weekly_stats[num_semesters >= 0.75 * num_semesters.max()]; 0.75 is 3/4
common_weeks_all(stats) == stats
common_weeks(stats) ==
    LET common(row) == 4 * row.num_semesters >= 3 * max_num_semesters(stats)
    IN SelectSeq(stats, common)

\* The tuples returned; idxmax of an empty series raises ValueError
identify_peak_weeks(stats) ==
    IF stats = <<>> THEN [exc |-> "ValueError", value |-> <<>>]
    ELSE LET highest == stats[idxmax(stats)]
             common == common_weeks(stats)
             lowest == common[idxmin(common)]
         IN [exc |-> "",
             value |-> [highest_week |-> <<highest.Semester_Week, highest.avg_usage>>,
                        lowest_week |-> <<lowest.Semester_Week, lowest.avg_usage>>]]

\* The records of the enhanced dataset, in the order of time: the semesters
\* as they follow each other, the weeks of a semester in turn
UsageSemesters == <<"2016 Spring", "2016 Fall">>

UsageRow(s, w) == ("Semester" :> UsageSemesters[s]) @@ ("Semester_Week" :> w)

UsageCells == {<<s, w>> : s \in DOMAIN UsageSemesters, w \in 1 .. MaxWeek}

\* Tuples of numbers, compared from the first component on
tuple_before(a, b) ==
    \E i \in 1 .. (Len(a) + 1) :
        /\ \A j \in 1 .. (i - 1) : a[j] = b[j]
        /\ i = Len(a) + 1 \/ a[i] < b[i]

\* The lists of at most n cells of C in which no cell comes before an earlier one
RECURSIVE OrderedCellLists(_, _)
OrderedCellLists(C, n) ==
    IF n = 0 THEN {<<>>}
    ELSE LET shorter == OrderedCellLists(C, n - 1)
         IN shorter \cup
            {Append(p[1], p[2]) :
                p \in {q \in {x \in shorter : Len(x) = n - 1} \X C :
                          q[1] = <<>> \/ tuple_before(q[1][Len(q[1])], q[2])}}

UsageData ==
    {[i \in DOMAIN l |-> UsageRow(l[i][1], l[i][2])] :
        l \in OrderedCellLists(UsageCells, MaxRecords)}

InitUsage ==
    /\ PrepIdle
    /\ CleanIdle
    /\ FetchIdle
    /\ AnonIdle
    /\ EquipIdle
    /\ usage_df \in UsageData
    /\ weekly_counts = <<>>
    /\ weekly_stats = <<>>
    /\ peak_weeks = <<>>
    /\ usage_pc = "loaded"

CallAnalyzeWeeklyUsage ==
    /\ usage_pc = "loaded"
    /\ LET r == analyze_weekly_usage(usage_df)
       IN /\ weekly_counts' = r.weekly_counts
          /\ weekly_stats' = r.weekly_stats
    /\ usage_pc' = "analyzed"
    /\ UNCHANGED <<usage_df, peak_weeks, prepVars, cleanVars, fetchVars, anonVars,
                   equipVars>>

CallIdentifyPeakWeeks ==
    /\ usage_pc = "analyzed"
    /\ LET r == identify_peak_weeks(weekly_stats)
       IN IF r.exc = ""
          THEN peak_weeks' = r.value /\ usage_pc' = "peaks"
          ELSE peak_weeks' = peak_weeks /\ usage_pc' = "raised"
    /\ UNCHANGED <<usage_df, weekly_counts, weekly_stats,
                   prepVars, cleanVars, fetchVars, anonVars, equipVars>>

NextUsage == CallAnalyzeWeeklyUsage \/ CallIdentifyPeakWeeks

SpecUsage == InitUsage /\ [][NextUsage]_vars

----------------------------------------------------------------------------
(* analyze_equipment *)

\* The equipment names and categories of the analysed records, in the order
\* of Python strings
SortedEquipment ==
    <<"Entry", "Jacobs MakerPass Access", "Jacobs Metal Shop", "Jacobs Wood Shop",
      "Metal Shop", "Wood Shop", "jacobs wood shop annex">>

equipment_position(e) == CHOOSE i \in DOMAIN SortedEquipment : SortedEquipment[i] = e

RECURSIVE sorted_tuples(_)
sorted_tuples(K) ==
    IF K = {} THEN <<>>
    ELSE LET first == CHOOSE k \in K : \A j \in K : tuple_before(k, j)
         IN <<first>> \o sorted_tuples(K \ {first})

\* (df['Access Type'] != 'Jacobs MakerPass Access') & (df['Equipment_Category'] != 'Entry')
relevant_all(row) == TRUE
relevant(row) ==
    row["Access Type"] # "Jacobs MakerPass Access" /\ row["Equipment_Category"] # "Entry"

load_equipment_data(rows) == SelectSeq(rows, relevant)

\* df.groupby([equipment_field, 'Semester', 'Semester_Week']).size().reset_index(name='Count')
equipment_groupby_size(data, equipment_field) ==
    LET keys == sorted_tuples({<<equipment_position(data[i][equipment_field]),
                                 semester_position(data[i]["Semester"]),
                                 data[i]["Semester_Week"]>> : i \in DOMAIN data})
    IN [i \in DOMAIN keys |->
           LET e == SortedEquipment[keys[i][1]]
               s == SortedSemesters[keys[i][2]]
               w == keys[i][3]
           IN (equipment_field :> e) @@ ("Semester" :> s) @@ ("Semester_Week" :> w) @@
              ("Count" :> Cardinality({j \in DOMAIN data :
                                          /\ data[j][equipment_field] = e
                                          /\ data[j]["Semester"] = s
                                          /\ data[j]["Semester_Week"] = w}))]

\* df.groupby(['Semester', 'Semester_Week']).size().reset_index(name='Total')
total_groupby_size(data) ==
    LET sizes == groupby_size(data)
    IN [i \in DOMAIN sizes |->
           ("Semester" :> sizes[i].Semester) @@ ("Semester_Week" :> sizes[i].Semester_Week) @@
           ("Total" :> sizes[i].Count)]

\* Every row gets the Total of the first row of total_counts
merge_left_first(equipment_counts, total_counts) ==
    [i \in DOMAIN equipment_counts |->
        equipment_counts[i] @@ ("Total" :> total_counts[1]["Total"])]

\* pd.merge(equipment_counts, total_counts, on=['Semester', 'Semester_Week'], how='left')
merge_left(equipment_counts, total_counts) ==
    [i \in DOMAIN equipment_counts |->
        LET same == {j \in DOMAIN total_counts :
                        /\ total_counts[j]["Semester"] = equipment_counts[i]["Semester"]
                        /\ total_counts[j]["Semester_Week"] =
                               equipment_counts[i]["Semester_Week"]}
        IN equipment_counts[i] @@
           ("Total" :> IF same = {} THEN NaN
                       ELSE total_counts[CHOOSE j \in same : TRUE]["Total"])]

\* merged_counts['Percentage'] = (merged_counts['Count'] / merged_counts['Total']) * 100
with_percentage(merged_counts) ==
    [i \in DOMAIN merged_counts |->
        merged_counts[i] @@
        ("Percentage" :> quotient(100 * merged_counts[i]["Count"], merged_counts[i]["Total"]))]

\* equipment_counts.groupby([equipment_field, 'Semester_Week']).agg(...).reset_index(),
\* std_usage filled
equipment_groupby_agg(equipment_counts, equipment_field) ==
    LET keys == sorted_tuples({<<equipment_position(equipment_counts[i][equipment_field]),
                                 equipment_counts[i]["Semester_Week"]>> :
                                  i \in DOMAIN equipment_counts})
    IN [i \in DOMAIN keys |->
           LET e == SortedEquipment[keys[i][1]]
               in_group(row) == row[equipment_field] = e /\ row["Semester_Week"] = keys[i][2]
               group == SelectSeq(equipment_counts, in_group)
               Count == [j \in DOMAIN group |-> group[j]["Count"]]
           IN (equipment_field :> e) @@ ("Semester_Week" :> keys[i][2]) @@
              ("avg_usage" :> mean(Count)) @@ ("std_usage" :> std_fillna(Count)) @@
              ("min_usage" :> min(Count)) @@ ("max_usage" :> max(Count)) @@
              ("num_semesters" :> Len(Count))]

\* The pivot of Count by (equipment, semester) and week, and for each week
\* column after week 1 whose previous week is a column the percent change
\* from it; a cell without records is NaN, and so is a change from or to it
percent_changes(equipment_counts, equipment_field) ==
    LET index == sorted_tuples({<<equipment_position(equipment_counts[i][equipment_field]),
                                  semester_position(equipment_counts[i]["Semester"])>> :
                                   i \in DOMAIN equipment_counts})
        columns == {equipment_counts[i]["Semester_Week"] : i \in DOMAIN equipment_counts}
        changes == {col \in columns : col > 1 /\ (col - 1) \in columns}
        cell(e, s, w) ==
            LET at == {i \in DOMAIN equipment_counts :
                          /\ equipment_counts[i][equipment_field] = e
                          /\ equipment_counts[i]["Semester"] = s
                          /\ equipment_counts[i]["Semester_Week"] = w}
            IN IF at = {} THEN NaN
               ELSE [nan |-> FALSE, value |-> equipment_counts[CHOOSE i \in at : TRUE]["Count"]]
    IN [i \in DOMAIN index |->
           LET e == SortedEquipment[index[i][1]]
               s == SortedSemesters[index[i][2]]
           IN (equipment_field :> e) @@ ("Semester" :> s) @@
              ("pct_change" :>
                  [col \in changes |->
                      LET cur == cell(e, s, col)
                          prev == cell(e, s, col - 1)
                      IN IF cur.nan \/ prev.nan THEN NaN
                         ELSE [nan |-> FALSE,
                               value |-> quotient(100 * (cur.value - prev.value),
                                                  prev.value)]])]

\* The four tables returned, with the field they are about; another field
\* raises ValueError
analyze_equipment_usage(rows, equipment_field) ==
    IF equipment_field \notin {"Access Type", "Equipment_Category"}
    THEN [exc |-> "ValueError"]
    ELSE LET data == SelectSeq(rows, relevant)
             equipment_counts == equipment_groupby_size(data, equipment_field)
             total_counts == total_groupby_size(data)
             merged_counts == merge_left(equipment_counts, total_counts)
         IN [exc |-> "",
             equipment_field |-> equipment_field,
             equipment_counts |-> equipment_counts,
             equipment_pct |-> with_percentage(merged_counts),
             equipment_stats |-> equipment_groupby_agg(equipment_counts, equipment_field),
             pct_changes |-> percent_changes(equipment_counts, equipment_field)]

\* Series.rank(ascending=False, method='min') within one group: the values
\* from the greatest down, a value's rank the first place it takes
RECURSIVE sort_descending(_)
sort_descending(xs) ==
    IF xs = <<>> THEN <<>>
    ELSE LET i == CHOOSE k \in DOMAIN xs : \A j \in DOMAIN xs : xs[k] >= xs[j]
         IN <<xs[i]>> \o sort_descending(SubSeq(xs, 1, i - 1) \o SubSeq(xs, i + 1, Len(xs)))

\* method='dense': the number of distinct values not smaller
rank_dense(x, xs) == Cardinality({xs[j] : j \in {k \in DOMAIN xs : xs[k] >= x}})
rank_min(x, xs) ==
    LET sorted == sort_descending(xs)
    IN CHOOSE i \in DOMAIN sorted : sorted[i] = x /\ \A j \in 1 .. (i - 1) : sorted[j] # x

\* rankings.groupby(['Semester', 'Semester_Week'])['Count'].rank(ascending=False, method='min')
groupby_rank(rankings) ==
    [i \in DOMAIN rankings |->
        LET in_group(row) ==
                /\ row["Semester"] = rankings[i]["Semester"]
                /\ row["Semester_Week"] = rankings[i]["Semester_Week"]
            group == SelectSeq(rankings, in_group)
        IN rank_min(rankings[i]["Count"], [j \in DOMAIN group |-> group[j]["Count"]])]

\* sort_values(['Semester', 'Semester_Week', 'Count'], ascending=[True, True, False]):
\* rows with equal keys keep their order
top_sort_key(row) ==
    <<semester_position(row["Semester"]), row["Semester_Week"], 0 - row["Count"]>>

RECURSIVE top_sort_values(_)
top_sort_values(rows) ==
    IF rows = <<>> THEN <<>>
    ELSE LET front == top_sort_values(SubSeq(rows, 1, Len(rows) - 1))
             last == rows[Len(rows)]
             before == {i \in DOMAIN front :
                           tuple_before(top_sort_key(front[i]), top_sort_key(last))}
             n == Cardinality(before)
         IN SubSeq(front, 1, n) \o <<last>> \o SubSeq(front, n + 1, Len(front))

\* No row is dropped
top_drop_duplicates_none(rows) == rows

\* drop_duplicates(['Semester', 'Semester_Week']): the first row of each pair
RECURSIVE top_drop_duplicates(_)
top_drop_duplicates(rows) ==
    IF rows = <<>> THEN <<>>
    ELSE LET front == SubSeq(rows, 1, Len(rows) - 1)
             last == rows[Len(rows)]
         IN IF \E i \in DOMAIN front :
                   /\ front[i]["Semester"] = last["Semester"]
                   /\ front[i]["Semester_Week"] = last["Semester_Week"]
            THEN top_drop_duplicates(front)
            ELSE Append(top_drop_duplicates(front), last)

\* pivot(index='Semester', columns='Semester_Week', values=equipment_field):
\* ValueError when two rows have the same semester and week; a pair without a
\* row is NaN
pivot(rows, equipment_field) ==
    IF \E i, j \in DOMAIN rows :
           /\ i # j
           /\ rows[i]["Semester"] = rows[j]["Semester"]
           /\ rows[i]["Semester_Week"] = rows[j]["Semester_Week"]
    THEN [exc |-> "ValueError", value |-> <<>>]
    ELSE [exc |-> "",
          value |->
            [index |-> sorted_tuples({<<semester_position(rows[i]["Semester"])>> :
                                         i \in DOMAIN rows}),
             columns |-> sorted_weeks({rows[i]["Semester_Week"] : i \in DOMAIN rows}),
             values |-> [p \in {<<rows[i]["Semester"], rows[i]["Semester_Week"]>> :
                                   i \in DOMAIN rows} |->
                            rows[CHOOSE i \in DOMAIN rows :
                                     /\ rows[i]["Semester"] = p[1]
                                     /\ rows[i]["Semester_Week"] = p[2]][equipment_field]]]]

\* pd.DataFrame()
empty_DataFrame == [index |-> <<>>, columns |-> <<>>, values |-> <<>>]

\* The sample standard deviation, as the number it is the square root of;
\* NaN for a single value
std(xs) ==
    IF Len(xs) = 1 THEN NaN
    ELSE [sqrt_of |-> quotient(Len(xs) * sum_of_squares(xs) - sum(xs) * sum(xs),
                               Len(xs) * (Len(xs) - 1))]

\* sort_values('mean'): rows with equal means keep their order
RECURSIVE sort_by_mean(_)
sort_by_mean(rows) ==
    IF rows = <<>> THEN <<>>
    ELSE LET front == sort_by_mean(SubSeq(rows, 1, Len(rows) - 1))
             last == rows[Len(rows)]
             n == Cardinality({i \in DOMAIN front : ~less(last["mean"], front[i]["mean"])})
         IN SubSeq(front, 1, n) \o <<last>> \o SubSeq(front, n + 1, Len(front))

\* rankings.groupby(equipment_field)['Rank'].agg(['mean', 'std', 'min', 'max'])
rank_consistency(rankings, equipment_field) ==
    LET keys == sorted_tuples({<<equipment_position(rankings[i][equipment_field])>> :
                                  i \in DOMAIN rankings})
    IN sort_by_mean(
        [i \in DOMAIN keys |->
           LET e == SortedEquipment[keys[i][1]]
               in_group(row) == row[equipment_field] = e
               group == SelectSeq(rankings, in_group)
               Rank == [j \in DOMAIN group |-> group[j]["Rank"]]
           IN (equipment_field :> e) @@ ("mean" :> mean(Rank)) @@ ("std" :> std(Rank)) @@
              ("min" :> min(Rank)) @@ ("max" :> max(Rank))])

\* The four tables returned, and the warning printed when the except clause
\* replaced the pivot by an empty DataFrame
calculate_rankings(equipment_pct, equipment_field) ==
    LET Rank == groupby_rank(equipment_pct)
        rankings == [i \in DOMAIN equipment_pct |-> equipment_pct[i] @@ ("Rank" :> Rank[i])]
        is_top(row) == row["Rank"] = 1
        top_equipment == SelectSeq(rankings, is_top)
        top_equipment_deduped == top_drop_duplicates(top_sort_values(top_equipment))
        try == pivot(top_equipment_deduped, equipment_field)
    IN [rankings |-> rankings,
        top_equipment |-> top_equipment,
        top_pivot |-> IF try.exc = "" THEN try.value ELSE empty_DataFrame,
        warning |-> IF try.exc = "" THEN "" ELSE "Could not create pivot table",
        consistency |-> rank_consistency(rankings, equipment_field)]

\* The records of the enhanced dataset with their equipment categories, in
\* the order of time
EquipmentAccessTypes ==
    <<"Jacobs MakerPass Access", "Jacobs Wood Shop", "jacobs wood shop annex",
      "Jacobs Metal Shop">>

EquipmentFields == <<"Access Type", "Equipment_Category">>

EquipmentRow(s, w, a) ==
    ("Access Type" :> EquipmentAccessTypes[a]) @@
    ("Equipment_Category" :> map_equipment_category(EquipmentAccessTypes[a])) @@
    ("Semester" :> UsageSemesters[s]) @@ ("Semester_Week" :> w)

EquipmentCells ==
    {<<s, w, a>> : s \in DOMAIN UsageSemesters, w \in 1 .. MaxEquipWeek,
                   a \in DOMAIN EquipmentAccessTypes}

EquipmentRows == [c \in EquipmentCells |-> EquipmentRow(c[1], c[2], c[3])]

EquipmentData(C, n) ==
    {[i \in DOMAIN l |-> EquipmentRows[l[i]]] : l \in OrderedCellLists(C, n)}

\* The analysis of records of two semesters and several weeks
InitEquipment ==
    /\ PrepIdle
    /\ CleanIdle
    /\ FetchIdle
    /\ AnonIdle
    /\ UsageIdle
    /\ equip_df \in EquipmentData(EquipmentCells, MaxEquipRecords)
    /\ equip_results = <<>>
    /\ equip_rankings = <<>>
    /\ equip_pc = "read"

\* The analysis of more records, all of them of the first week of a semester
InitRanking ==
    /\ PrepIdle
    /\ CleanIdle
    /\ FetchIdle
    /\ AnonIdle
    /\ UsageIdle
    /\ equip_df \in EquipmentData({c \in EquipmentCells : c[2] = 1}, MaxRankRecords)
    /\ equip_results = <<>>
    /\ equip_rankings = <<>>
    /\ equip_pc = "read"

CallLoadEquipmentData ==
    /\ equip_pc = "read"
    /\ equip_df' = load_equipment_data(equip_df)
    /\ equip_pc' = "loaded"
    /\ UNCHANGED <<equip_results, equip_rankings, prepVars, cleanVars, fetchVars,
                   anonVars, usageVars>>

\* analyze_equipment_usage for the next field, 'Access Type' first
CallAnalyzeEquipmentUsage ==
    /\ equip_pc \in {"read", "loaded", "ranked"}
    /\ Len(equip_results) < Len(EquipmentFields)
    /\ LET equipment_field == EquipmentFields[Len(equip_results) + 1]
           r == analyze_equipment_usage(equip_df, equipment_field)
       IN IF r.exc = ""
          THEN /\ equip_results' = Append(equip_results, r)
               /\ equip_pc' = "analyzed"
          ELSE /\ equip_results' = equip_results
               /\ equip_pc' = "raised"
    /\ UNCHANGED <<equip_df, equip_rankings, prepVars, cleanVars, fetchVars,
                   anonVars, usageVars>>

\* calculate_rankings for the field just analysed
CallCalculateRankings ==
    /\ equip_pc = "analyzed"
    /\ LET r == equip_results[Len(equip_results)]
       IN equip_rankings' =
              Append(equip_rankings, calculate_rankings(r.equipment_pct, r.equipment_field))
    /\ equip_pc' = "ranked"
    /\ UNCHANGED <<equip_df, equip_results, prepVars, cleanVars, fetchVars,
                   anonVars, usageVars>>

NextEquipment ==
    CallLoadEquipmentData \/ CallAnalyzeEquipmentUsage \/ CallCalculateRankings

SpecEquipment == InitEquipment /\ [][NextEquipment]_vars

SpecRanking == InitRanking /\ [][NextEquipment]_vars

----------------------------------------------------------------------------
(* What the claims speak of *)

asi_called == asi_ret # 0
ed_called == ed_ret # 0
asi_rows == heap[asi_ret].rows
ed_rows == heap[ed_ret].rows

WeekHours == DaysPerWeek * HoursPerDay

\* start <= T <= end
InRange(ts, t) == start_of(t) <= ts /\ ts <= end_of(t)

NonOverlapping(terms) ==
    \A k, l \in DOMAIN terms :
        k # l => \/ end_of(terms[k]) < start_of(terms[l])
                 \/ end_of(terms[l]) < start_of(terms[k])

\* The terms of terms_data whose range contains ts
Matching(ts) == {k \in DOMAIN terms_data : InRange(ts, terms_data[k])}

Covered(row) == Matching(row["Timestamp"]) # {}

\* Term k comes before term l in chronological order of start date
\* (terms with the same start date in the order of terms_data)
Earlier(k, l) ==
    \/ start_of(terms_data[k]) < start_of(terms_data[l])
    \/ start_of(terms_data[k]) = start_of(terms_data[l]) /\ k < l

FirstMatch(ts) ==
    CHOOSE k \in Matching(ts) : \A l \in Matching(ts) \ {k} : Earlier(k, l)

LastMatch(ts) ==
    CHOOSE k \in Matching(ts) : \A l \in Matching(ts) \ {k} : Earlier(l, k)

DistinctStarts(S) ==
    \A k, l \in S : k # l => start_of(terms_data[k]) # start_of(terms_data[l])

\* The Mondays (00:00) of the calendar
Mondays == {Midnight(DaysPerWeek * k) : k \in 0 .. ((DaysPerWeek + MaxDay) \div DaysPerWeek)}

MondayOnOrBefore(date) == CHOOSE m \in Mondays : m <= date /\ date < m + WeekHours

\* The Monday 00:00 to Sunday 23:59 week a timestamp falls in
CalendarWeek(ts) == ts \div WeekHours

\* The start date of the term a row is labelled with
StartOfSemester(row) ==
    start_of(terms_data[CHOOSE k \in DOMAIN terms_data :
                            name_of(terms_data[k]) = row["Semester"]])

Timestamps_of(rows) == [i \in DOMAIN rows |-> rows[i]["Timestamp"]]

Project(rows, cols) == [i \in DOMAIN rows |-> [c \in cols |-> rows[i][c]]]

----------------------------------------------------------------------------
(* C1: with pairwise non-overlapping term ranges, a record is labelled with
   a term's name if and only if start <= T <= end of that term (both bounds
   inclusive), by add_semester_info and by enhance_dataset. *)

Labelled(rows, ts, name) ==
    \E i \in DOMAIN rows : rows[i]["Timestamp"] = ts /\ rows[i]["Semester"] = name

LabelIffInRange(rows) ==
    \A i \in DOMAIN arg.rows, k \in DOMAIN terms_data :
        Labelled(rows, arg.rows[i]["Timestamp"], name_of(terms_data[k]))
            <=> InRange(arg.rows[i]["Timestamp"], terms_data[k])

C1_LabelIffInRange ==
    NonOverlapping(terms_data) =>
        /\ asi_called => LabelIffInRange(asi_rows)
        /\ ed_called => LabelIffInRange(ed_rows)

\* Two disjoint terms, a record exactly at the end date of one of them (kept
\* and labelled) and a record that no term contains (not labelled)
C1_Witness ==
    /\ ed_called
    /\ Len(terms_data) = 2
    /\ NonOverlapping(terms_data)
    /\ \E i \in DOMAIN arg.rows, k \in DOMAIN terms_data :
          /\ arg.rows[i]["Timestamp"] = end_of(terms_data[k])
          /\ Labelled(asi_rows, arg.rows[i]["Timestamp"], name_of(terms_data[k]))
          /\ Labelled(ed_rows, arg.rows[i]["Timestamp"], name_of(terms_data[k]))
    /\ \E i \in DOMAIN arg.rows : ~Covered(arg.rows[i])

----------------------------------------------------------------------------
(* C2 as stated: a record inside more than one term range is assigned to the
   first matching term in chronological order of start date. *)

FirstMatchWins(rows) ==
    \A i \in DOMAIN rows :
        LET M == Matching(rows[i]["Timestamp"])
        IN (Cardinality(M) > 1 /\ DistinctStarts(M)) =>
               rows[i]["Semester"] = name_of(terms_data[FirstMatch(rows[i]["Timestamp"])])

C2_FirstMatchWins ==
    /\ asi_called => FirstMatchWins(asi_rows)
    /\ ed_called => FirstMatchWins(ed_rows)

(* C2 amended: a record inside more than one term range is assigned to the
   last matching term in chronological order of start date (among terms with
   the same start date, the one later in terms_data), and its week is counted
   from that term's start. *)

LastMatchWins(rows) ==
    \A i \in DOMAIN rows :
        LET ts == rows[i]["Timestamp"]
        IN Cardinality(Matching(ts)) > 1 =>
               /\ rows[i]["Semester"] = name_of(terms_data[LastMatch(ts)])
               /\ rows[i]["Semester_Week"] =
                      ((ts - MondayOnOrBefore(start_of(terms_data[LastMatch(ts)])))
                          \div WeekHours) + 1

C2_LastMatchWins ==
    /\ asi_called => LastMatchWins(asi_rows)
    /\ ed_called => LastMatchWins(ed_rows)

\* A record inside two terms with different start dates, the later-starting
\* term standing first in terms_data
C2_Witness ==
    /\ ed_called
    /\ \E i \in DOMAIN ed_rows :
          LET M == Matching(ed_rows[i]["Timestamp"])
          IN /\ M = {1, 2}
             /\ start_of(terms_data[2]) < start_of(terms_data[1])
             /\ ed_rows[i]["Semester"] = name_of(terms_data[1])
             /\ asi_rows[i]["Semester"] = name_of(terms_data[1])

----------------------------------------------------------------------------
(* C3: for every record assigned to a term with start date start,
   Semester_Week = floor((T - M) / 7 days) + 1 where M is the Monday on or
   before start; so Semester_Week >= 1, and a record at start has week 1. *)

WeekFormula(rows) ==
    \A i \in DOMAIN rows :
        LET ts == rows[i]["Timestamp"]
            start == StartOfSemester(rows[i])
            w == rows[i]["Semester_Week"]
        IN /\ w = ((ts - MondayOnOrBefore(start)) \div WeekHours) + 1
           /\ w >= 1
           /\ ts = start => w = 1

C3_WeekFormula ==
    /\ asi_called => WeekFormula(asi_rows)
    /\ ed_called => WeekFormula(ed_rows)

\* A term that starts on a Sunday, with a record at its start (week 1) and a
\* record on the Monday after (week 2)
C3_Witness ==
    /\ ed_called
    /\ \E i, j \in DOMAIN ed_rows :
          /\ ed_rows[i]["Semester"] = ed_rows[j]["Semester"]
          /\ StartOfSemester(ed_rows[i]) # MondayOnOrBefore(StartOfSemester(ed_rows[i]))
          /\ ed_rows[i]["Timestamp"] = StartOfSemester(ed_rows[i])
          /\ ed_rows[i]["Semester_Week"] = 1
          /\ ed_rows[j]["Semester_Week"] = 2
          /\ asi_rows[j]["Semester_Week"] = 2

----------------------------------------------------------------------------
(* C4: the week does not depend on the weekday the term starts on: any start
   date in the same Monday-Sunday calendar week as the term's start (and not
   after T) gives the record the Semester_Week it has. *)

AllDays == 0 .. (DaysPerWeek + MaxDay)

SameWeekStarts(row) ==
    {d \in AllDays :
        /\ MondayOnOrBefore(Midnight(d)) = MondayOnOrBefore(StartOfSemester(row))
        /\ Midnight(d) <= row["Timestamp"]}

C4_WeekdayIndependent ==
    /\ asi_called =>
          \A i \in DOMAIN asi_rows : \A d \in SameWeekStarts(asi_rows[i]) :
              asi_week(asi_rows[i]["Timestamp"], Midnight(d)) = asi_rows[i]["Semester_Week"]
    /\ ed_called =>
          \A i \in DOMAIN ed_rows : \A d \in SameWeekStarts(ed_rows[i]) :
              ed_week(ed_rows[i]["Timestamp"], Midnight(d)) = ed_rows[i]["Semester_Week"]

\* A record of week 2 in a term that starts on the Sunday of week 1: the six
\* other start days of that calendar week give week 2 as well
C4_Witness ==
    /\ ed_called
    /\ \E i \in DOMAIN ed_rows :
          /\ weekday(StartOfSemester(ed_rows[i])) = DaysPerWeek - 1
          /\ ed_rows[i]["Semester_Week"] = 2
          /\ asi_rows[i]["Semester_Week"] = 2
          /\ Cardinality(SameWeekStarts(ed_rows[i])) = DaysPerWeek

----------------------------------------------------------------------------
(* C5: weeks run Monday through Sunday: two records of the same term have
   the same Semester_Week if and only if they fall in the same calendar week,
   and records in consecutive calendar weeks have consecutive week numbers. *)

WeeksAreCalendarWeeks(rows) ==
    \A i, j \in DOMAIN rows :
        rows[i]["Semester"] = rows[j]["Semester"] =>
            /\ rows[i]["Semester_Week"] = rows[j]["Semester_Week"]
                   <=> CalendarWeek(rows[i]["Timestamp"]) = CalendarWeek(rows[j]["Timestamp"])
            /\ CalendarWeek(rows[j]["Timestamp"]) = CalendarWeek(rows[i]["Timestamp"]) + 1
                   => rows[j]["Semester_Week"] = rows[i]["Semester_Week"] + 1

C5_WeeksAreCalendarWeeks ==
    /\ asi_called => WeeksAreCalendarWeeks(asi_rows)
    /\ ed_called => WeeksAreCalendarWeeks(ed_rows)

\* Two records of one term twelve hours apart, Sunday noon and Monday 00:00,
\* in weeks 1 and 2
C5_Witness ==
    /\ ed_called
    /\ \E i, j \in DOMAIN ed_rows :
          /\ ed_rows[i]["Semester"] = ed_rows[j]["Semester"]
          /\ ed_rows[j]["Timestamp"] - ed_rows[i]["Timestamp"] < HoursPerDay
          /\ weekday(ed_rows[j]["Timestamp"]) = 0
          /\ ed_rows[i]["Semester_Week"] = 1
          /\ ed_rows[j]["Semester_Week"] = 2
          /\ asi_rows[i]["Semester_Week"] = 1
          /\ asi_rows[j]["Semester_Week"] = 2

----------------------------------------------------------------------------
(* C6: the output holds exactly the input rows whose timestamp lies inside
   at least one term range, each once and in their order; no output row has
   Semester 'Unknown' or a missing Semester_Week. *)

NoUnknown(rows) ==
    \A i \in DOMAIN rows :
        rows[i]["Semester"] # Unknown /\ rows[i]["Semester_Week"] # NoWeek

C6_ExactlyCoveredRows ==
    /\ asi_called =>
          /\ Project(asi_rows, arg.columns) = SelectSeq(arg.rows, Covered)
          /\ NoUnknown(asi_rows)
    /\ ed_called =>
          /\ Timestamps_of(ed_rows) = Timestamps_of(SelectSeq(arg.rows, Covered))
          /\ NoUnknown(ed_rows)

\* Two terms with a gap between them, a record in the gap (removed) and a
\* record in a term (kept)
C6_Witness ==
    /\ ed_called
    /\ Len(terms_data) = 2
    /\ Len(arg.rows) = 2
    /\ Len(asi_rows) = 1
    /\ Len(ed_rows) = 1
    /\ \E i \in DOMAIN arg.rows :
          /\ ~Covered(arg.rows[i])
          /\ \E k, l \in DOMAIN terms_data :
                /\ end_of(terms_data[k]) < arg.rows[i]["Timestamp"]
                /\ arg.rows[i]["Timestamp"] < start_of(terms_data[l])

----------------------------------------------------------------------------
(* C7: add_semester_info and enhance_dataset keep the same rows and give
   every kept row the same Semester and Semester_Week, overlapping terms
   included. *)

C7_CopiesAgree ==
    ed_called =>
        Project(ed_rows, {"Timestamp", "Semester", "Semester_Week"})
            = Project(asi_rows, {"Timestamp", "Semester", "Semester_Week"})

\* Overlapping terms, a record inside both and a record that is dropped
C7_Witness ==
    /\ ed_called
    /\ ~NonOverlapping(terms_data)
    /\ Len(ed_rows) = 1
    /\ Len(arg.rows) = 2
    /\ Cardinality(Matching(ed_rows[1]["Timestamp"])) = 2

----------------------------------------------------------------------------
(* C8: add_semester_info, enhance_dataset and add_equipment_category never
   modify the table passed in: it keeps its rows, its columns and its values
   ('Access Type' not normalized, no column added). *)

C8_ArgumentUnchanged ==
    /\ df = 1
    /\ heap[df] = arg
    /\ heap[df].columns = {"Timestamp", "Access Type"}

\* All three functions were called on a table with a record the term contains
\* and an equipment name that enhance_dataset normalizes in its result
C8_Witness ==
    /\ aec_ret # 0
    /\ \E i \in DOMAIN arg.rows :
          /\ Covered(arg.rows[i])
          /\ arg.rows[i]["Access Type"] = "Jacobs DiWire Room 220C"
    /\ \E i \in DOMAIN ed_rows : ed_rows[i]["Access Type"] = "Jacobs DiWire"
    /\ "Semester" \in heap[asi_ret].columns
    /\ "Equipment_Category" \in heap[aec_ret].columns

----------------------------------------------------------------------------
(* C9: clean_and_load removes exactly the COVID-era records: no returned row
   has covid_start <= T <= covid_end (both bounds inclusive), and every input
   row with T < covid_start or T > covid_end is returned. *)

C9_RemovesExactlyCovid ==
    clean_done =>
        /\ \A i \in DOMAIN clean_df :
              ~(covid_start <= clean_df[i]["Timestamp"]
                    /\ clean_df[i]["Timestamp"] <= covid_end)
        /\ \A i \in DOMAIN csv :
              (csv[i]["Timestamp"] < covid_start \/ csv[i]["Timestamp"] > covid_end)
                  => \E j \in DOMAIN clean_df : clean_df[j] = csv[i]

\* A record exactly at covid_end (removed) and a record twelve hours later
\* (returned)
C9_Witness ==
    /\ clean_done
    /\ covid_start < covid_end
    /\ Len(clean_df) = 1
    /\ clean_df[1]["Timestamp"] > covid_end
    /\ clean_df[1]["Timestamp"] < covid_end + HoursPerDay
    /\ \E i \in DOMAIN csv : csv[i]["Timestamp"] = covid_end

----------------------------------------------------------------------------
(* C10: fetch_terms is best-effort per term ID: a request failure, a missing
   field or an unparsable date is logged and skipped without raising, the
   remaining IDs are still processed, and the list returned holds one tuple
   per successful ID, in the order of term_ids. *)

RequestFailed(r) == r.http = "error"

MissingField(r) ==
    /\ r.http = "ok"
    /\ r.response # "null"
    /\ \/ r.response = "absent"
       \/ r.terms # "list"
       \/ r.name = ""
       \/ r.sessions # "list"
       \/ r.beginDate = ""
       \/ r.fullyGradedDeadline = ""

UnparsableDate(r) ==
    /\ r.http = "ok"
    /\ ~MissingField(r)
    /\ r.response # "null"
    /\ \/ r.beginDate \notin DOMAIN ParsedDates
       \/ r.fullyGradedDeadline \notin DOMAIN ParsedDates

Successful(r) ==
    /\ r.http = "ok" /\ r.response = "object" /\ r.terms = "list" /\ r.sessions = "list"
    /\ r.name # ""
    /\ r.beginDate \in DOMAIN ParsedDates
    /\ r.fullyGradedDeadline \in DOMAIN ParsedDates

TupleOf(r) ==
    <<r.name, Midnight(ParsedDates[r.beginDate]), Midnight(ParsedDates[r.fullyGradedDeadline])>>

TuplesOf(rs) == [i \in DOMAIN rs |-> TupleOf(rs[i])]

Skipped(r) == RequestFailed(r) \/ MissingField(r) \/ UnparsableDate(r)

----------------------------------------------------------------------------
(* C11: anonymize gives two rows the same 'Unique ID' if and only if they
   have the same (First Name, Last Name) pair. *)

C11_SameIdIffSameName ==
    anon_done =>
        \A i, j \in DOMAIN names_csv :
            anon_csv[i]["Unique ID"] = anon_csv[j]["Unique ID"]
                <=> /\ names_csv[i]["First Name"] = names_csv[j]["First Name"]
                    /\ names_csv[i]["Last Name"] = names_csv[j]["Last Name"]

----------------------------------------------------------------------------
(* C12: add_equipment_category gives every row exactly one Equipment_Category:
   the category of the key equal to its 'Access Type' if there is one,
   otherwise the category of the first key in mapping order that is a
   case-insensitive substring of it, and 'Other' only when no key is. *)

aec_called == aec_ret # 0

aec_rows == heap[aec_ret].rows

Keys == DOMAIN equipment_categories

ExactKeys(a) == {k \in Keys : equipment_categories[k][1] = a}

\* The keys that occur in a, whatever the case of the letters
SubstringKeys(a) ==
    {k \in Keys :
        LET key == lower(chars[equipment_categories[k][1]])
            in_lower == lower(chars[a])
        IN \E off \in 0 .. (Len(in_lower) - Len(key)) :
               SubSeq(in_lower, off + 1, off + Len(key)) = key}

FirstOf(S) == CHOOSE k \in S : \A j \in S : k <= j

ExpectedCategory(a) ==
    IF ExactKeys(a) # {} THEN equipment_categories[FirstOf(ExactKeys(a))][2]
    ELSE IF SubstringKeys(a) # {} THEN equipment_categories[FirstOf(SubstringKeys(a))][2]
    ELSE "Other"

----------------------------------------------------------------------------
(* C13: fetch_terms never holds a partial term: an iteration appends a tuple
   only when the name, the first session's begin date and the
   fullyGradedDeadline were all present and both dates parsed, every tuple of
   the list has a non-empty name and two valid dates, and an iteration that
   fails at any of these steps leaves the list as it was. *)

ValidDates == {Midnight(ParsedDates[s]) : s \in DOMAIN ParsedDates}

CompleteTuple(t) ==
    /\ Len(t) = 3
    /\ t[1] # ""
    /\ t[2] \in ValidDates
    /\ t[3] \in ValidDates

AllPresentAndParsed(r) ==
    /\ r.http = "ok"
    /\ r.response = "object"
    /\ r.terms = "list"
    /\ r.name # ""
    /\ r.sessions = "list"
    /\ r.beginDate # "" /\ r.fullyGradedDeadline # ""
    /\ r.beginDate \in DOMAIN ParsedDates
    /\ r.fullyGradedDeadline \in DOMAIN ParsedDates

AppendsOnlyWholeTerms ==
    /\ fetch_terms_data' # fetch_terms_data => responses' # responses
    /\ responses' # responses =>
          LET r == responses'[Len(responses')]
          IN IF AllPresentAndParsed(r)
             THEN fetch_terms_data' =
                      Append(fetch_terms_data,
                             <<r.name, Midnight(ParsedDates[r.beginDate]),
                               Midnight(ParsedDates[r.fullyGradedDeadline])>>)
             ELSE fetch_terms_data' = fetch_terms_data

C13_NoPartialTerm ==
    /\ [](\A i \in DOMAIN fetch_terms_data : CompleteTuple(fetch_terms_data[i]))
    /\ [][AppendsOnlyWholeTerms]_vars

\* The first ID gave a whole term; the second ID's answer had a name and a
\* begin date that parsed but a deadline that did not, and the list returned
\* holds the first term only
C13_Witness ==
    /\ fetch_pc = "returned"
    /\ Len(responses) = 2
    /\ AllPresentAndParsed(responses[1])
    /\ responses[2].name # ""
    /\ responses[2].beginDate \in DOMAIN ParsedDates
    /\ responses[2].fullyGradedDeadline = "18/01/2016"
    /\ Len(fetch_terms_data) = 1
    /\ CompleteTuple(fetch_terms_data[1])

----------------------------------------------------------------------------
(* C14: after clean_and_load no two rows of the result are identical in all
   columns, and each distinct input row outside the COVID period appears in
   the result exactly once. *)

OutsideCovid(row) ==
    row["Timestamp"] < covid_start \/ row["Timestamp"] > covid_end

Occurrences(rows, row) == {j \in DOMAIN rows : rows[j] = row}

C14_EachRowOnce ==
    clean_done =>
        /\ \A i, j \in DOMAIN clean_df : clean_df[i] = clean_df[j] => i = j
        /\ \A i \in DOMAIN csv :
              OutsideCovid(csv[i]) => Cardinality(Occurrences(clean_df, csv[i])) = 1
        /\ \A j \in DOMAIN clean_df : Occurrences(csv, clean_df[j]) # {}

\* The file held the same record twice, outside the COVID period, and the
\* result holds it once
C14_Witness ==
    /\ clean_done
    /\ Len(csv) >= 2
    /\ csv[1] = csv[2]
    /\ OutsideCovid(csv[1])
    /\ Cardinality(Occurrences(clean_df, csv[1])) = 1

----------------------------------------------------------------------------
(* C15: analyze_weekly_usage conserves records: weekly_counts has exactly one
   row for each (Semester, Semester_Week) pair that occurs in the data, the
   row's Count is the number of records with that pair, so at least 1, and the
   Counts add up to the number of input records. *)

usage_analyzed == usage_pc \in {"analyzed", "peaks", "raised"}

RecordsOf(s, w) ==
    {i \in DOMAIN usage_df :
        usage_df[i]["Semester"] = s /\ usage_df[i]["Semester_Week"] = w}

CountRowsOf(s, w) ==
    {j \in DOMAIN weekly_counts :
        weekly_counts[j].Semester = s /\ weekly_counts[j].Semester_Week = w}

RECURSIVE TotalCount(_)
TotalCount(j) == IF j = 0 THEN 0 ELSE weekly_counts[j].Count + TotalCount(j - 1)

C15_RecordsConserved ==
    usage_analyzed =>
        /\ \A i \in DOMAIN usage_df :
              Cardinality(CountRowsOf(usage_df[i]["Semester"],
                                      usage_df[i]["Semester_Week"])) = 1
        /\ \A j \in DOMAIN weekly_counts :
              /\ weekly_counts[j].Count =
                     Cardinality(RecordsOf(weekly_counts[j].Semester,
                                           weekly_counts[j].Semester_Week))
              /\ weekly_counts[j].Count >= 1
        /\ TotalCount(Len(weekly_counts)) = Len(usage_df)

\* Records of both semesters were counted, several of them in one week of
\* one semester
C15_Witness ==
    /\ usage_analyzed
    /\ Len(usage_df) = MaxRecords
    /\ Len(weekly_counts) >= 3
    /\ \E j \in DOMAIN weekly_counts : weekly_counts[j].Count >= 2
    /\ \E j, k \in DOMAIN weekly_counts : weekly_counts[j].Semester # weekly_counts[k].Semester

----------------------------------------------------------------------------
(* C16: in weekly_stats, percent_change for week w is the percent change of
   avg_usage from week w-1 to week w, and it is NaN for the first week. *)

PercentChange(prev, cur) ==
    hundredths_of(round_2(100 * (cur.num * prev.den - prev.num * cur.den),
                          prev.num * cur.den))

C16_ChangeFromWeekBefore ==
    usage_analyzed =>
        \A i \in DOMAIN weekly_stats :
            IF \A j \in DOMAIN weekly_stats :
                   weekly_stats[i].Semester_Week <= weekly_stats[j].Semester_Week
            THEN weekly_stats[i].percent_change = NaN
            ELSE \E j \in DOMAIN weekly_stats :
                    /\ weekly_stats[j].Semester_Week = weekly_stats[i].Semester_Week - 1
                    /\ weekly_stats[i].percent_change =
                           PercentChange(weekly_stats[j].avg_usage,
                                         weekly_stats[i].avg_usage)

----------------------------------------------------------------------------
(* C17: identify_peak_weeks returns as highest week a week with the maximum
   avg_usage over all weeks, and as lowest week a week with the minimum
   avg_usage among the weeks whose num_semesters is at least 75% of the
   largest num_semesters; the lowest week always meets that threshold, the
   highest week need not. *)

MeetsThreshold(row) ==
    100 * row.num_semesters >=
        75 * max([i \in DOMAIN weekly_stats |-> weekly_stats[i].num_semesters])

StatsOfWeek(w) ==
    weekly_stats[CHOOSE i \in DOMAIN weekly_stats : weekly_stats[i].Semester_Week = w]

C17_PeakWeeks ==
    usage_pc = "peaks" =>
        LET highest_week == peak_weeks.highest_week
            lowest_week == peak_weeks.lowest_week
        IN /\ \E i \in DOMAIN weekly_stats : weekly_stats[i].Semester_Week = highest_week[1]
           /\ StatsOfWeek(highest_week[1]).avg_usage = highest_week[2]
           /\ \A i \in DOMAIN weekly_stats : ~less(highest_week[2], weekly_stats[i].avg_usage)
           /\ \E i \in DOMAIN weekly_stats : weekly_stats[i].Semester_Week = lowest_week[1]
           /\ StatsOfWeek(lowest_week[1]).avg_usage = lowest_week[2]
           /\ MeetsThreshold(StatsOfWeek(lowest_week[1]))
           /\ \A i \in DOMAIN weekly_stats :
                 MeetsThreshold(weekly_stats[i]) => ~less(weekly_stats[i].avg_usage, lowest_week[2])

\* The highest week occurs in one semester of two and so fails the threshold,
\* the lowest week occurs in both
C17_Witness ==
    /\ usage_pc = "peaks"
    /\ ~MeetsThreshold(StatsOfWeek(peak_weeks.highest_week[1]))
    /\ StatsOfWeek(peak_weeks.lowest_week[1]).num_semesters = 2
    /\ less(peak_weeks.lowest_week[2], peak_weeks.highest_week[2])

----------------------------------------------------------------------------
(* C18: Entry records never contribute to equipment statistics: what
   analyze_equipment_usage counts in equipment_counts, in the Total of a
   (Semester, Semester_Week) and in equipment_stats are the records with
   Access Type != 'Jacobs MakerPass Access' and Equipment_Category != 'Entry'
   only, whether or not load_equipment_data ran first. *)

IsEntry(row) ==
    row["Access Type"] = "Jacobs MakerPass Access" \/ row["Equipment_Category"] = "Entry"

\* The records of equip_df that are no Entry records and have value e in
\* field f, semester s (any semester for "") and week w
Counted(f, e, s, w) ==
    {i \in DOMAIN equip_df :
        /\ ~IsEntry(equip_df[i])
        /\ equip_df[i][f] = e
        /\ s # "" => equip_df[i]["Semester"] = s
        /\ equip_df[i]["Semester_Week"] = w}

CountedInWeek(s, w) ==
    {i \in DOMAIN equip_df :
        /\ ~IsEntry(equip_df[i])
        /\ equip_df[i]["Semester"] = s
        /\ equip_df[i]["Semester_Week"] = w}

C18_EntryNeverCounted ==
    \A n \in DOMAIN equip_results :
        LET r == equip_results[n]
            f == r.equipment_field
        IN /\ \A i \in DOMAIN r.equipment_counts :
                 LET row == r.equipment_counts[i]
                 IN /\ row[f] \notin {"Jacobs MakerPass Access", "Entry"}
                    /\ row["Count"] =
                           Cardinality(Counted(f, row[f], row["Semester"], row["Semester_Week"]))
           /\ \A i \in DOMAIN r.equipment_pct :
                 LET row == r.equipment_pct[i]
                 IN row["Total"] =
                        Cardinality(CountedInWeek(row["Semester"], row["Semester_Week"]))
           /\ \A i \in DOMAIN r.equipment_stats :
                 LET row == r.equipment_stats[i]
                     records == Counted(f, row[f], "", row["Semester_Week"])
                 IN /\ row[f] \notin {"Jacobs MakerPass Access", "Entry"}
                    /\ row["num_semesters"] =
                           Cardinality({equip_df[k]["Semester"] : k \in records})
                    /\ row["avg_usage"].num * row["num_semesters"] =
                           Cardinality(records) * row["avg_usage"].den
                    /\ row["max_usage"] <= Cardinality(records)

\* analyze_equipment_usage ran on a table that load_equipment_data had not
\* filtered, with an Entry record and another record in the same week of the
\* same semester, and counted the other record only
C18_Witness ==
    /\ Len(equip_results) >= 1
    /\ \E i, j \in DOMAIN equip_df :
          /\ IsEntry(equip_df[i])
          /\ ~IsEntry(equip_df[j])
          /\ equip_df[i]["Semester"] = equip_df[j]["Semester"]
          /\ equip_df[i]["Semester_Week"] = equip_df[j]["Semester_Week"]
          /\ \E k \in DOMAIN equip_results[1].equipment_pct :
                LET row == equip_results[1].equipment_pct[k]
                IN /\ row["Semester"] = equip_df[j]["Semester"]
                   /\ row["Semester_Week"] = equip_df[j]["Semester_Week"]
                   /\ row["Total"] = 1

----------------------------------------------------------------------------
(* C19: in equipment_pct, the Counts of the rows of a (Semester,
   Semester_Week) add up to the Total of each of them, a row's Percentage is
   Count / Total * 100 with 1 <= Count <= Total, and the two grouping fields
   give the same Total for the same (Semester, Semester_Week). *)

SamePair(a, b) ==
    a["Semester"] = b["Semester"] /\ a["Semester_Week"] = b["Semester_Week"]

RECURSIVE CountsOfPair(_, _, _)
CountsOfPair(rows, row, n) ==
    IF n = 0 THEN 0
    ELSE CountsOfPair(rows, row, n - 1) + (IF SamePair(rows[n], row) THEN rows[n]["Count"] ELSE 0)

C19_CountsAddUpToTotal ==
    /\ \A n \in DOMAIN equip_results :
          LET pct == equip_results[n].equipment_pct
          IN \A i \in DOMAIN pct :
                /\ CountsOfPair(pct, pct[i], Len(pct)) = pct[i]["Total"]
                /\ pct[i]["Percentage"].num * pct[i]["Total"] =
                       100 * pct[i]["Count"] * pct[i]["Percentage"].den
                /\ 1 <= pct[i]["Count"]
                /\ pct[i]["Count"] <= pct[i]["Total"]
    /\ \A n, m \in DOMAIN equip_results :
          LET a == equip_results[n].equipment_pct
              b == equip_results[m].equipment_pct
          IN \A i \in DOMAIN a :
                /\ \E j \in DOMAIN b : SamePair(a[i], b[j])
                /\ \A j \in DOMAIN b : SamePair(a[i], b[j]) => a[i]["Total"] = b[j]["Total"]

\* Both fields were analysed; one week of one semester has three records of
\* three kinds of equipment, two of them of one category, which takes 200/3
\* percent of the Total of 3
C19_Witness ==
    /\ Len(equip_results) = 2
    /\ \E i \in DOMAIN equip_results[2].equipment_pct :
          LET row == equip_results[2].equipment_pct[i]
          IN /\ row["Count"] = 2
             /\ row["Total"] = 3
             /\ row["Percentage"] = [num |-> 200, den |-> 3]
             /\ Cardinality({j \in DOMAIN equip_results[1].equipment_pct :
                                SamePair(equip_results[1].equipment_pct[j], row)}) = 3

----------------------------------------------------------------------------
(* C20: calculate_rankings ranks by usage within each (Semester,
   Semester_Week), rank 1 the most used: a row's Rank is 1 plus the number of
   rows of the same (Semester, Semester_Week) with a strictly greater Count,
   so tied rows share a rank and every (Semester, Semester_Week) has a row
   with Rank 1. *)

GreaterInPair(rows, i) ==
    {j \in DOMAIN rows : SamePair(rows[j], rows[i]) /\ rows[j]["Count"] > rows[i]["Count"]}

C20_RankCountsGreater ==
    \A n \in DOMAIN equip_rankings :
        LET rankings == equip_rankings[n].rankings
        IN /\ Len(rankings) = Len(equip_results[n].equipment_pct)
           /\ \A i \in DOMAIN rankings :
                 /\ rankings[i]["Rank"] = 1 + Cardinality(GreaterInPair(rankings, i))
                 /\ \A j \in DOMAIN rankings :
                       SamePair(rankings[i], rankings[j])
                           /\ rankings[i]["Count"] = rankings[j]["Count"]
                       => rankings[i]["Rank"] = rankings[j]["Rank"]
                 /\ \E j \in DOMAIN rankings :
                       SamePair(rankings[i], rankings[j]) /\ rankings[j]["Rank"] = 1

\* Three kinds of equipment in one week of one semester, two of them used
\* twice and one once: ranks 1, 1 and 3
C20_Witness ==
    /\ Len(equip_rankings) >= 1
    /\ \E i, j, k \in DOMAIN equip_rankings[1].rankings :
          LET rankings == equip_rankings[1].rankings
          IN /\ i # j
             /\ SamePair(rankings[i], rankings[j]) /\ SamePair(rankings[i], rankings[k])
             /\ rankings[i]["Count"] = 2 /\ rankings[i]["Rank"] = 1
             /\ rankings[j]["Count"] = 2 /\ rankings[j]["Rank"] = 1
             /\ rankings[k]["Count"] = 1 /\ rankings[k]["Rank"] = 3

----------------------------------------------------------------------------
(* C21: top_pivot holds exactly one top equipment for every (Semester,
   Semester_Week) of the ranked table, also when several equipment values tie
   at Rank 1; the value it holds is an equipment whose Count is the greatest
   of that (Semester, Semester_Week); a tie never makes calculate_rankings
   fall back to the empty DataFrame. *)

PairsOf(rows) == {<<rows[i]["Semester"], rows[i]["Semester_Week"]>> : i \in DOMAIN rows}

\* The values of field f in the rows of pair p whose Count no row of p exceeds
MostUsed(rows, f, p) ==
    {rows[i][f] : i \in {k \in DOMAIN rows :
        /\ <<rows[k]["Semester"], rows[k]["Semester_Week"]>> = p
        /\ \A j \in DOMAIN rows :
              <<rows[j]["Semester"], rows[j]["Semester_Week"]>> = p
                  => rows[j]["Count"] <= rows[k]["Count"]}}

C21_OneTopPerPair ==
    \A n \in DOMAIN equip_rankings :
        LET pct == equip_results[n].equipment_pct
            f == equip_results[n].equipment_field
            top_pivot == equip_rankings[n].top_pivot
        IN /\ pct # <<>> => equip_rankings[n].warning = ""
           /\ DOMAIN top_pivot.values = PairsOf(pct)
           /\ \A p \in PairsOf(pct) : top_pivot.values[p] \in MostUsed(pct, f, p)
           /\ \A p \in PairsOf(pct) :
                 /\ \E i \in DOMAIN top_pivot.index : SortedSemesters[top_pivot.index[i][1]] = p[1]
                 /\ \E i \in DOMAIN top_pivot.columns : top_pivot.columns[i] = p[2]

\* Two kinds of equipment tie at Rank 1 in one week of one semester, another
\* week of the other semester has records too, and the pivot holds one of the
\* two for the first pair
C21_Witness ==
    /\ Len(equip_rankings) >= 1
    /\ equip_rankings[1].warning = ""
    /\ \E p \in PairsOf(equip_results[1].equipment_pct) :
          /\ Cardinality(MostUsed(equip_results[1].equipment_pct, "Access Type", p)) = 2
          /\ equip_rankings[1].top_pivot.values[p]
                 \in MostUsed(equip_results[1].equipment_pct, "Access Type", p)
          /\ Cardinality({i \in DOMAIN equip_rankings[1].top_equipment :
                <<equip_rankings[1].top_equipment[i]["Semester"],
                  equip_rankings[1].top_equipment[i]["Semester_Week"]>> = p}) = 2
    /\ Len(equip_rankings[1].top_pivot.index) = 2
    /\ Len(equip_rankings[1].top_pivot.columns) = 2

====
